---- MODULE Spec2Model ----
(***************************************************************************)
(* Model of src/main.py: the WebAuthn registration and login ceremonies    *)
(* over the two in-memory dictionaries `users` and `challenges`.           *)
(*                                                                         *)
(* Scheduling.  begin_register and begin_login are plain `def` handlers:   *)
(* the framework runs them on worker threads, so their statements          *)
(* interleave with everything else.  finish_register and finish_login are  *)
(* `async def` handlers: they run on the single event loop, give it up     *)
(* only at `await request.json()`, and therefore never interleave with     *)
(* each other after that line, but do interleave with the worker threads.  *)
(***************************************************************************)
EXTENDS Integers, Sequences, FiniteSets, TLC

\* ---------------------------------------------------------------- bounds
\* worker threads, which run the `def` handlers
NumWorkers == 2
\* requests to the `async def` handlers that can be in flight
NumCoros == 2
\* challenges and user records drawn in one run, and the largest counter
MaxChallenges == 3
MaxHandles == 2
MaxCounter == 2
\* credentials registered in one user record
MaxCredentials == 2

Workers == 1..NumWorkers
Coros == (NumWorkers + 1)..(NumWorkers + NumCoros)
Procs == Workers \cup Coros
Identities == {"alice", "bob"}
\* the authenticators that exist: the raw credential id (a byte string) and
\* the public key of the credential each one creates
Authenticators == {[id |-> <<1>>, key |-> "k1"], [id |-> <<2, 3, 4>>, key |-> "k2"]}
Keys == {a.key : a \in Authenticators}
RawIds == {a.id : a \in Authenticators}
\* the counters a new credential can start with
InitialCounters == {0, 1}

\* the base64 alphabet is 0..63; Pad stands for the character '='
Pad == 64

VARIABLES users, heap, challenges, issued, pc, loc, response,
          registerBegun, consumed, ceremony
vars == <<users, heap, challenges, issued, pc, loc, response,
          registerBegun, consumed, ceremony>>

\* ------------------------------------------------------------ base64url
RECURSIVE B64Encode(_)
\* base64.urlsafe_b64encode: three bytes give four characters, a shorter
\* tail is zero-filled and padded with '='
B64Encode(bs) ==
    IF Len(bs) = 0 THEN <<>>
    ELSE IF Len(bs) = 1 THEN
        <<bs[1] \div 4, (bs[1] % 4) * 16, Pad, Pad>>
    ELSE IF Len(bs) = 2 THEN
        <<bs[1] \div 4, (bs[1] % 4) * 16 + bs[2] \div 16, (bs[2] % 16) * 4, Pad>>
    ELSE <<bs[1] \div 4, (bs[1] % 4) * 16 + bs[2] \div 16,
           (bs[2] % 16) * 4 + bs[3] \div 64, bs[3] % 64>>
         \o B64Encode(SubSeq(bs, 4, Len(bs)))

RECURSIVE RStripPad(_)
\* str.rstrip('=')
RStripPad(s) ==
    IF Len(s) > 0 /\ s[Len(s)] = Pad THEN RStripPad(SubSeq(s, 1, Len(s) - 1))
    ELSE s

\* the stored and transmitted form of a credential id
EncodeId(raw) == RStripPad(B64Encode(raw))

\* credential["id"] + '=' * (4 - len(credential["id"]) % 4)
AddPadding(s) == s \o [i \in 1..(4 - (Len(s) % 4)) |-> Pad]

RECURSIVE B64DecodeData(_)
\* the bytes of a run of data characters: four characters give three bytes,
\* a tail of two gives one byte and a tail of three gives two
B64DecodeData(d) ==
    IF Len(d) < 2 THEN <<>>
    ELSE IF Len(d) = 2 THEN <<d[1] * 4 + d[2] \div 16>>
    ELSE IF Len(d) = 3 THEN
        <<d[1] * 4 + d[2] \div 16, (d[2] % 16) * 16 + d[3] \div 4>>
    ELSE <<d[1] * 4 + d[2] \div 16, (d[2] % 16) * 16 + d[3] \div 4,
           (d[3] % 4) * 64 + d[4]>>
         \o B64DecodeData(SubSeq(d, 5, Len(d)))

\* as B64Decode, but in strict mode: padding beyond what the last group
\* needs is an error too
B64DecodeStrict(s) ==
    LET d == SelectSeq(s, LAMBDA c : c # Pad)
        pads == Len(s) - Len(d)
        q == Len(d) % 4
    IN  IF (q = 0 /\ pads = 0) \/ (q >= 2 /\ pads = 4 - q)
        THEN [ok |-> TRUE, bytes |-> B64DecodeData(d)]
        ELSE [ok |-> FALSE, bytes |-> <<>>]

\* base64.urlsafe_b64decode in its default, non-strict mode: padding beyond
\* what the last group needs is ignored, too little padding is an error
B64Decode(s) ==
    LET d == SelectSeq(s, LAMBDA c : c # Pad)
        pads == Len(s) - Len(d)
        q == Len(d) % 4
    IN  IF q = 0 \/ (q >= 2 /\ pads >= 4 - q)
        THEN [ok |-> TRUE, bytes |-> B64DecodeData(d)]
        ELSE [ok |-> FALSE, bytes |-> <<>>]

\* ------------------------------------------------------------- verifier
\* The request body is a local of the handler; the model fixes each of its
\* fields at the statement that first reads it; the response of a call
\* records the fields the call had read (response.body).
NoBody == [id |-> <<>>, chal |-> 0, key |-> "", count |-> 0]

\* A registration response: the new credential's raw id, its public key and
\* initial counter, attested over the challenge `chal` (0: over no
\* challenge this server ever issued, or otherwise not verifiable).  The
\* verifier reads the challenge; the handler reads the rest from the
\* verifier's result.
AttestedChallenges(known) == 0..known
AttestedCredentials(chal) ==
    {[id |-> a.id, chal |-> chal, key |-> a.key, count |-> n] :
        a \in Authenticators, n \in InitialCounters}

\* An authentication response: the asserted credential id as the client
\* sends it, signed with the private key of `key` over `chal`, reporting
\* the authenticator's counter.
AssertedIds == {EncodeId(r) : r \in RawIds}
AuthenticationBodies(known, id) ==
    [id : {id}, chal : 0..known, key : Keys, count : 0..MaxCounter]

\* verify_registration_response: accepts a response attested over the
\* expected challenge
VerifyRegistration(chal, expected_challenge) ==
    chal # 0 /\ chal = expected_challenge

\* as VerifyAuthentication, but the challenge signed over is not compared
VerifyAuthenticationNoChallenge(body, expected_challenge, public_key, current_sign_count) ==
    /\ body.key = public_key
    /\ ~ ((current_sign_count > 0 \/ body.count > 0)
           /\ body.count <= current_sign_count)

\* as VerifyAuthentication, but the counters are not compared
VerifyAuthenticationNoCounter(body, expected_challenge, public_key, current_sign_count) ==
    /\ body.chal # 0
    /\ body.chal = expected_challenge
    /\ body.key = public_key

\* verify_authentication_response: the signature is by the stored public
\* key over the expected challenge, and the counter has advanced unless
\* both counters are zero
VerifyAuthentication(body, expected_challenge, public_key, current_sign_count) ==
    /\ body.chal # 0
    /\ body.chal = expected_challenge
    /\ body.key = public_key
    /\ ~ ((current_sign_count > 0 \/ body.count > 0)
           /\ body.count <= current_sign_count)

\* ---------------------------------------------------------------- state
\* users      email -> the user record stored for it (0: none)
\* heap       the user records ever created, by handle: the "credentials"
\*            list of each; a record replaced in `users` stays here, out of
\*            reach but for the handlers that still hold it
\* challenges email -> the pending challenge (0: none)
\* issued     how many challenges have been drawn; challenge n is the n-th
\* pc, loc    where each request stands, and its locals
\* response   the response the last step sent, if it sent one: the handler,
\*            the email of its request, the status and, for options, the
\*            challenge, the user handle and the allowed credential ids
\*            they carry; `body` is history, the request body as far as the
\*            handler had read it
\* registerBegun  history: the emails begin_register was called for
\* consumed       history: the challenges a successful finish has verified
\* ceremony       history: email -> the handler that stored its pending
\*                challenge ("": none pending)
\* `known` is how many challenges had been issued when the request was
\* sent: its response is signed over none that came later
NoLocals ==
    [email |-> "", known |-> 0, body |-> NoBody, chal |-> 0, user |-> 0,
     idx |-> 0, allow |-> <<>>]

NoResponse ==
    [op |-> "", email |-> "", status |-> "", chal |-> 0, user |-> 0,
     allow |-> <<>>, body |-> NoBody]

Credentials == [id : Seq(0..Pad), public_key : Keys, counter : 0..MaxCounter]

TypeOK ==
    /\ users \in [Identities -> 0..MaxHandles]
    /\ heap \in Seq(Seq(Credentials))
    /\ Len(heap) <= MaxHandles
    /\ challenges \in [Identities -> 0..MaxChallenges]
    /\ issued \in 0..MaxChallenges
    /\ registerBegun \subseteq Identities
    /\ consumed \subseteq 1..MaxChallenges
    /\ ceremony \in [Identities -> {"", "begin_register", "begin_login"}]

Init ==
    /\ users = [e \in Identities |-> 0]
    /\ heap = <<>>
    /\ challenges = [e \in Identities |-> 0]
    /\ issued = 0
    /\ pc = [p \in Procs |-> "idle"]
    /\ loc = [p \in Procs |-> NoLocals]
    /\ response = NoResponse
    /\ registerBegun = {}
    /\ consumed = {}
    /\ ceremony = [e \in Identities |-> ""]

\* ------------------------------------------------------------- helpers
BeginPcs == {"br_create", "br_reuse", "br_put", "bl_allow", "bl_put"}
\* positions of an async handler between its await and its return: the
\* event loop is held by the request that is there
LoopPcs == {"fr_get", "fr_verify", "fr_store", "fr_del",
            "fl_user", "fl_chal", "fl_find", "fl_verify", "fl_update", "fl_del"}
\* as LoopFree, for handlers that do not wait for each other
LoopNeverHeld == TRUE

LoopFree == \A q \in Procs : pc[q] \notin LoopPcs

\* calls that may still draw a challenge, and calls that may still create a
\* user record: the model admits a call only while the bounds leave room
\* for what it may allocate
PendingIssues == Cardinality({q \in Procs : pc[q] \in BeginPcs})
PendingCreates == Cardinality({q \in Procs : pc[q] = "br_create"})

Goto(p, label, locals) ==
    /\ pc' = [pc EXCEPT ![p] = label]
    /\ loc' = [loc EXCEPT ![p] = locals]
    /\ response' = NoResponse

\* the handler `op` ends: its response is sent and its locals are gone
Respond(p, op, status, chal, user, allow, body) ==
    /\ pc' = [pc EXCEPT ![p] = "idle"]
    /\ loc' = [loc EXCEPT ![p] = NoLocals]
    /\ response' = [op |-> op, email |-> loc[p].email, status |-> status,
                    chal |-> chal, user |-> user, allow |-> allow, body |-> body]

\* the handler ends with an error response
Raise(p, op, error) == Respond(p, op, error, 0, 0, <<>>, loc[p].body)

\* ------------------------------------------------------ begin_register
\* a worker thread takes the request; line 47: if email not in users
BeginRegisterCheck(p, email) ==
    /\ p \in Workers
    /\ pc[p] = "idle"
    /\ issued + PendingIssues < MaxChallenges
    /\ users[email] = 0 => Len(heap) + PendingCreates < MaxHandles
    /\ Goto(p, IF users[email] = 0 THEN "br_create" ELSE "br_reuse",
            [NoLocals EXCEPT !.email = email])
    /\ registerBegun' = registerBegun \cup {email}
    /\ UNCHANGED <<users, heap, challenges, issued, consumed, ceremony>>

\* as BeginRegisterCreate, but the new record is not stored under the email
BeginRegisterCreateUnstored(p) ==
    /\ pc[p] = "br_create"
    /\ heap' = Append(heap, <<>>)
    /\ users' = users
    /\ Goto(p, "br_put", [loc[p] EXCEPT !.user = Len(heap) + 1])
    /\ UNCHANGED <<challenges, issued, registerBegun, consumed, ceremony>>

\* lines 48-49: a new random handle and a new record with no credentials
BeginRegisterCreate(p) ==
    /\ pc[p] = "br_create"
    /\ heap' = Append(heap, <<>>)
    /\ users' = [users EXCEPT ![loc[p].email] = Len(heap) + 1]
    /\ Goto(p, "br_put", [loc[p] EXCEPT !.user = Len(heap) + 1])
    /\ UNCHANGED <<challenges, issued, registerBegun, consumed, ceremony>>

\* line 52: user_id = users[email]["id"]
BeginRegisterReuse(p) ==
    /\ pc[p] = "br_reuse"
    /\ Goto(p, "br_put", [loc[p] EXCEPT !.user = users[loc[p].email]])
    /\ UNCHANGED <<users, heap, challenges, issued, registerBegun, consumed, ceremony>>

\* lines 54-73: a fresh random challenge is stored for the email and
\* returned in the options together with the handle
BeginRegisterPut(p) ==
    /\ pc[p] = "br_put"
    /\ issued' = issued + 1
    /\ challenges' = [challenges EXCEPT ![loc[p].email] = issued + 1]
    /\ ceremony' = [ceremony EXCEPT ![loc[p].email] = "begin_register"]
    /\ Respond(p, "begin_register", "options", issued + 1, loc[p].user, <<>>, NoBody)
    /\ UNCHANGED <<users, heap, registerBegun, consumed>>

\* ----------------------------------------------------- finish_register
CallFinishRegister(p) ==
    /\ p \in Coros
    /\ pc[p] = "idle"
    /\ Goto(p, "fr_await", NoLocals)
    /\ UNCHANGED <<users, heap, challenges, issued, registerBegun, consumed, ceremony>>

\* lines 82-84: the body arrives and the handler goes on, on the event loop
FinishRegisterAwait(p, email) ==
    /\ pc[p] = "fr_await"
    /\ LoopFree
    /\ users[email] # 0 => Len(heap[users[email]]) < MaxCredentials
    /\ Goto(p, "fr_get", [loc[p] EXCEPT !.email = email, !.known = issued])
    /\ UNCHANGED <<users, heap, challenges, issued, registerBegun, consumed, ceremony>>

\* lines 86-88
FinishRegisterGet(p) ==
    /\ pc[p] = "fr_get"
    /\ IF challenges[loc[p].email] = 0
       THEN Raise(p, "finish_register", "NoRegistrationInProgress")
       ELSE Goto(p, "fr_verify", [loc[p] EXCEPT !.chal = challenges[loc[p].email]])
    /\ UNCHANGED <<users, heap, challenges, issued, registerBegun, consumed, ceremony>>

\* as FinishRegisterVerify, but the credential of a response that fails
\* verification is stored all the same
FinishRegisterVerifyStoreAnyway(p) ==
    /\ pc[p] = "fr_verify"
    /\ \E chal \in AttestedChallenges(loc[p].known) :
        IF VerifyRegistration(chal, loc[p].chal)
        THEN /\ Goto(p, "fr_store", [loc[p] EXCEPT !.body.chal = chal])
             /\ heap' = heap
        ELSE /\ Respond(p, "finish_register", "VerificationError", 0, 0, <<>>,
                        [NoBody EXCEPT !.chal = chal])
             /\ \E a \in Authenticators :
                  heap' = [heap EXCEPT ![users[loc[p].email]] =
                              Append(@, [id |-> EncodeId(a.id), public_key |-> a.key,
                                         counter |-> 0])]
    /\ UNCHANGED <<users, challenges, issued, registerBegun, consumed, ceremony>>

\* lines 91-96: the verifier's exception is not caught
FinishRegisterVerify(p) ==
    /\ pc[p] = "fr_verify"
    /\ \E chal \in AttestedChallenges(loc[p].known) :
        IF VerifyRegistration(chal, loc[p].chal)
        THEN Goto(p, "fr_store", [loc[p] EXCEPT !.body.chal = chal])
        ELSE Respond(p, "finish_register", "VerificationError", 0, 0, <<>>,
                     [NoBody EXCEPT !.chal = chal])
    /\ UNCHANGED <<users, heap, challenges, issued, registerBegun, consumed, ceremony>>

\* lines 99-109
FinishRegisterStore(p) ==
    /\ pc[p] = "fr_store"
    /\ \E body \in AttestedCredentials(loc[p].body.chal) :
        LET h == users[loc[p].email]
            device_credential ==
                [id |-> EncodeId(body.id),
                 public_key |-> body.key,
                 counter |-> body.count]
        IN  IF h = 0
            THEN Raise(p, "finish_register", "KeyError") /\ heap' = heap
            ELSE /\ heap' = [heap EXCEPT ![h] = Append(@, device_credential)]
                 /\ Goto(p, "fr_del", [loc[p] EXCEPT !.body = body])
    /\ UNCHANGED <<users, challenges, issued, registerBegun, consumed, ceremony>>

\* as FinishRegisterDel, but the challenge is left in place
FinishRegisterDelKeep(p) ==
    /\ pc[p] = "fr_del"
    /\ consumed' = consumed \cup {loc[p].chal}
    /\ Respond(p, "finish_register", "registered", 0, 0, <<>>, loc[p].body)
    /\ UNCHANGED <<users, heap, challenges, issued, registerBegun, ceremony>>

\* lines 111-114
FinishRegisterDel(p) ==
    /\ pc[p] = "fr_del"
    /\ IF challenges[loc[p].email] = 0
       THEN Raise(p, "finish_register", "KeyError") /\ UNCHANGED <<challenges, consumed, ceremony>>
       ELSE /\ challenges' = [challenges EXCEPT ![loc[p].email] = 0]
            /\ consumed' = consumed \cup {loc[p].chal}
            /\ ceremony' = [ceremony EXCEPT ![loc[p].email] = ""]
            /\ Respond(p, "finish_register", "registered", 0, 0, <<>>, loc[p].body)
    /\ UNCHANGED <<users, heap, issued, registerBegun>>

\* as BeginLoginUser, but only a missing record is refused
BeginLoginUserAnyRecord(p, email) ==
    /\ p \in Workers
    /\ pc[p] = "idle"
    /\ issued + PendingIssues < MaxChallenges
    /\ LET user == users[email]
       IN  IF user = 0
           THEN /\ pc' = pc
                /\ loc' = loc
                /\ response' = [NoResponse EXCEPT
                        !.op = "begin_login", !.email = email,
                        !.status = "UnknownIdentityOrNoDevices"]
           ELSE Goto(p, "bl_allow", [NoLocals EXCEPT !.email = email, !.user = user])
    /\ UNCHANGED <<users, heap, challenges, issued, registerBegun, consumed, ceremony>>

\* --------------------------------------------------------- begin_login
\* as BeginLoginUser, but the challenge is drawn and stored before the
\* record is looked at
BeginLoginUserChallengeFirst(p, email) ==
    /\ p \in Workers
    /\ pc[p] = "idle"
    /\ issued + PendingIssues < MaxChallenges
    /\ LET user == users[email]
       IN  IF user = 0 \/ heap[user] = <<>>
           THEN /\ issued' = issued + 1
                /\ challenges' = [challenges EXCEPT ![email] = issued + 1]
                /\ ceremony' = [ceremony EXCEPT ![email] = "begin_login"]
                /\ pc' = pc
                /\ loc' = loc
                /\ response' = [NoResponse EXCEPT
                        !.op = "begin_login", !.email = email,
                        !.status = "UnknownIdentityOrNoDevices"]
           ELSE /\ Goto(p, "bl_allow", [NoLocals EXCEPT !.email = email, !.user = user])
                /\ UNCHANGED <<challenges, issued, ceremony>>
    /\ UNCHANGED <<users, heap, registerBegun, consumed>>

\* a worker thread takes the request; lines 123-125
BeginLoginUser(p, email) ==
    /\ p \in Workers
    /\ pc[p] = "idle"
    /\ issued + PendingIssues < MaxChallenges
    /\ LET user == users[email]
       IN  IF user = 0 \/ heap[user] = <<>>
           THEN /\ pc' = pc
                /\ loc' = loc
                /\ response' = [NoResponse EXCEPT
                        !.op = "begin_login", !.email = email,
                        !.status = "UnknownIdentityOrNoDevices"]
           ELSE Goto(p, "bl_allow", [NoLocals EXCEPT !.email = email, !.user = user])
    /\ UNCHANGED <<users, heap, challenges, issued, registerBegun, consumed, ceremony>>

\* lines 128-139: every stored id is padded and decoded to bytes
BeginLoginAllow(p) ==
    /\ pc[p] = "bl_allow"
    /\ LET credentials == heap[loc[p].user]
           decoded == [i \in 1..Len(credentials) |->
                          B64Decode(AddPadding(credentials[i].id))]
       IN  IF \E i \in 1..Len(decoded) : ~ decoded[i].ok
           THEN Raise(p, "begin_login", "ServerError")
           ELSE Goto(p, "bl_put", [loc[p] EXCEPT !.allow =
                    [i \in 1..Len(decoded) |-> decoded[i].bytes]])
    /\ UNCHANGED <<users, heap, challenges, issued, registerBegun, consumed, ceremony>>

\* lines 142-145: the challenge is stored; the options go out as JSON, the
\* allowed ids in unpadded base64url
BeginLoginPut(p) ==
    /\ pc[p] = "bl_put"
    /\ issued' = issued + 1
    /\ challenges' = [challenges EXCEPT ![loc[p].email] = issued + 1]
    /\ ceremony' = [ceremony EXCEPT ![loc[p].email] = "begin_login"]
    /\ Respond(p, "begin_login", "options", issued + 1, 0,
               [i \in 1..Len(loc[p].allow) |-> EncodeId(loc[p].allow[i])], NoBody)
    /\ UNCHANGED <<users, heap, registerBegun, consumed>>

\* -------------------------------------------------------- finish_login
CallFinishLogin(p) ==
    /\ p \in Coros
    /\ pc[p] = "idle"
    /\ Goto(p, "fl_await", NoLocals)
    /\ UNCHANGED <<users, heap, challenges, issued, registerBegun, consumed, ceremony>>

\* lines 153-154
FinishLoginAwait(p, email) ==
    /\ pc[p] = "fl_await"
    /\ LoopFree
    /\ Goto(p, "fl_user", [loc[p] EXCEPT !.email = email, !.known = issued])
    /\ UNCHANGED <<users, heap, challenges, issued, registerBegun, consumed, ceremony>>

\* lines 157-161
FinishLoginUser(p) ==
    /\ pc[p] = "fl_user"
    /\ IF users[loc[p].email] = 0
       THEN Raise(p, "finish_login", "NoLoginInProgress")
       ELSE Goto(p, "fl_chal", [loc[p] EXCEPT !.user = users[loc[p].email]])
    /\ UNCHANGED <<users, heap, challenges, issued, registerBegun, consumed, ceremony>>

\* lines 165-167
FinishLoginChal(p) ==
    /\ pc[p] = "fl_chal"
    /\ IF challenges[loc[p].email] = 0
       THEN Raise(p, "finish_login", "NoLoginInProgress")
       ELSE Goto(p, "fl_find", [loc[p] EXCEPT !.chal = challenges[loc[p].email]])
    /\ UNCHANGED <<users, heap, challenges, issued, registerBegun, consumed, ceremony>>

\* as FindCredential, but an id that is not in the list finds the first
\* credential of the list
FindCredentialOrFirst(credentials, credential_id) ==
    LET hits == {i \in 1..Len(credentials) : credentials[i].id = credential_id}
    IN  IF hits = {} THEN (IF Len(credentials) > 0 THEN 1 ELSE 0)
        ELSE CHOOSE i \in hits : \A j \in hits : i <= j

\* lines 174-178: the first credential of the record with the asserted id
FindCredential(credentials, credential_id) ==
    LET hits == {i \in 1..Len(credentials) : credentials[i].id = credential_id}
    IN  IF hits = {} THEN 0
        ELSE CHOOSE i \in hits : \A j \in hits : i <= j

\* lines 171-182; a request refused here is answered without its
\* signature being looked at: the response records the body as it was
\* sent (the counter it reports plays no part and is taken as MaxCounter)
FinishLoginFind(p) ==
    /\ pc[p] = "fl_find"
    /\ \E credential_id \in AssertedIds :
        LET i == FindCredential(heap[loc[p].user], credential_id)
        IN  IF i = 0
            THEN \E body \in AuthenticationBodies(loc[p].known, credential_id) :
                    /\ body.count = MaxCounter
                    /\ Respond(p, "finish_login", "UnknownCredential", 0, 0, <<>>, body)
            ELSE Goto(p, "fl_verify",
                      [loc[p] EXCEPT !.idx = i, !.body.id = credential_id])
    /\ UNCHANGED <<users, heap, challenges, issued, registerBegun, consumed, ceremony>>

\* lines 185-192: the verifier's exception is not caught
FinishLoginVerify(p) ==
    /\ pc[p] = "fl_verify"
    /\ \E body \in AuthenticationBodies(loc[p].known, loc[p].body.id) :
        LET used_device_credential == heap[loc[p].user][loc[p].idx]
        IN  IF VerifyAuthentication(body, loc[p].chal,
                                    used_device_credential.public_key,
                                    used_device_credential.counter)
            THEN Goto(p, "fl_update", [loc[p] EXCEPT !.body = body])
            ELSE Respond(p, "finish_login", "VerificationError", 0, 0, <<>>, body)
    /\ UNCHANGED <<users, heap, challenges, issued, registerBegun, consumed, ceremony>>

\* as FinishLoginUpdate, but the counter is written to the first credential
\* of the record
FinishLoginUpdateFirst(p) ==
    /\ pc[p] = "fl_update"
    /\ heap' = [heap EXCEPT ![loc[p].user][1].counter = loc[p].body.count]
    /\ Goto(p, "fl_del", loc[p])
    /\ UNCHANGED <<users, challenges, issued, registerBegun, consumed, ceremony>>

\* as FinishLoginUpdate, but the stored counter is stepped by one
FinishLoginUpdateIncrement(p) ==
    /\ pc[p] = "fl_update"
    /\ heap' = [heap EXCEPT ![loc[p].user][loc[p].idx].counter = @ + 1]
    /\ Goto(p, "fl_del", loc[p])
    /\ UNCHANGED <<users, challenges, issued, registerBegun, consumed, ceremony>>

\* line 195
FinishLoginUpdate(p) ==
    /\ pc[p] = "fl_update"
    /\ heap' = [heap EXCEPT ![loc[p].user][loc[p].idx].counter = loc[p].body.count]
    /\ Goto(p, "fl_del", loc[p])
    /\ UNCHANGED <<users, challenges, issued, registerBegun, consumed, ceremony>>

\* as FinishLoginDel, but the challenge is left in place
FinishLoginDelKeep(p) ==
    /\ pc[p] = "fl_del"
    /\ consumed' = consumed \cup {loc[p].chal}
    /\ Respond(p, "finish_login", "ok", 0, 0, <<>>, loc[p].body)
    /\ UNCHANGED <<users, heap, challenges, issued, registerBegun, ceremony>>

\* lines 198-205
FinishLoginDel(p) ==
    /\ pc[p] = "fl_del"
    /\ IF challenges[loc[p].email] = 0
       THEN Raise(p, "finish_login", "KeyError") /\ UNCHANGED <<challenges, consumed, ceremony>>
       ELSE /\ challenges' = [challenges EXCEPT ![loc[p].email] = 0]
            /\ consumed' = consumed \cup {loc[p].chal}
            /\ ceremony' = [ceremony EXCEPT ![loc[p].email] = ""]
            /\ Respond(p, "finish_login", "ok", 0, 0, <<>>, loc[p].body)
    /\ UNCHANGED <<users, heap, issued, registerBegun>>

\* ------------------------------------------------------- specifications
\* a request arrives
Call(p, email) ==
    \/ BeginRegisterCheck(p, email)
    \/ CallFinishRegister(p)
    \/ BeginLoginUser(p, email)
    \/ CallFinishLogin(p)

\* a request in progress goes on
Step(p, email) ==
    \/ BeginRegisterCreate(p)
    \/ BeginRegisterReuse(p)
    \/ BeginRegisterPut(p)
    \/ FinishRegisterAwait(p, email)
    \/ FinishRegisterGet(p)
    \/ FinishRegisterVerify(p)
    \/ FinishRegisterStore(p)
    \/ FinishRegisterDel(p)
    \/ BeginLoginAllow(p)
    \/ BeginLoginPut(p)
    \/ FinishLoginAwait(p, email)
    \/ FinishLoginUser(p)
    \/ FinishLoginChal(p)
    \/ FinishLoginFind(p)
    \/ FinishLoginVerify(p)
    \/ FinishLoginUpdate(p)
    \/ FinishLoginDel(p)

\* one request at a time, for any identity: a call is made only when every
\* other has returned, so one worker thread and the event loop serve them all
AllIdle == \A q \in Procs : pc[q] = "idle"
SeqNext ==
    \E p \in {1, NumWorkers + 1}, email \in Identities :
        (AllIdle /\ Call(p, email)) \/ Step(p, email)
SeqSpec == Init /\ [][SeqNext]_vars

\* requests for one identity: the requests to the async handlers, all in
\* flight together, and one worker thread
LoopRaceNext ==
    \E p \in {1} \cup Coros, email \in {"alice"} :
        Call(p, email) \/ Step(p, email)
LoopRaceSpec == Init /\ [][LoopRaceNext]_vars

\* requests for one identity: the worker threads, all running together,
\* and one request to the async handlers
ThreadRaceNext ==
    \E p \in Workers \cup {NumWorkers + 1}, email \in {"alice"} :
        Call(p, email) \/ Step(p, email)
ThreadRaceSpec == Init /\ [][ThreadRaceNext]_vars

\* requests for any identity, one worker thread overlapping with the event
\* loop
PairNext ==
    \E p \in {1, NumWorkers + 1}, email \in Identities :
        Call(p, email) \/ Step(p, email)
PairSpec == Init /\ [][PairNext]_vars

\* requests for any identity, overlapping
Next == \E p \in Procs, email \in Identities : Call(p, email) \/ Step(p, email)
Spec == Init /\ [][Next]_vars

\* ---------------------------------------------------------------- claims
\* the credentials registered for an email
Creds(e) == IF users[e] = 0 THEN <<>> ELSE heap[users[e]]
CredIds(e) == {Creds(e)[i].id : i \in 1..Len(Creds(e))}

\* the credential a registration body gives rise to
CredentialOf(body) ==
    [id |-> EncodeId(body.id), public_key |-> body.key, counter |-> body.count]

FinishRegisterPcs == {"fr_get", "fr_verify", "fr_store", "fr_del"}
FinishLoginPcs == {"fl_user", "fl_chal", "fl_find", "fl_verify", "fl_update", "fl_del"}

\* C1: with one request at a time, a finish_register whose response is
\* attested over the challenge pending for the email never fails
\* verification; it appends exactly one credential to that email's record
\* and nothing else, answers "registered" and leaves no challenge pending;
\* and a finish_register that finds no challenge pending (as the next one
\* does, unless a begin comes first) answers "no registration in progress"
\* and changes neither records nor credentials.
C1_RegisterOnce ==
    [][\A p \in Coros : pc[p] \in FinishRegisterPcs =>
        LET e == loc[p].email
        IN  /\ response'.status = "VerificationError"
                => response'.body.chal # challenges[e]
            /\ IF pc[p] = "fr_store"
               THEN /\ users' = users
                    /\ heap' = [heap EXCEPT ![users[e]] =
                                   Append(@, CredentialOf(loc'[p].body))]
               ELSE users' = users /\ heap' = heap
            /\ pc[p] = "fr_store" => pc'[p] = "fr_del"
            /\ pc[p] = "fr_del"
                => response'.status = "registered" /\ challenges'[e] = 0
            /\ pc[p] = "fr_get" /\ challenges[e] = 0
                => response'.status = "NoRegistrationInProgress"
            /\ pc[p] = "fr_get" /\ challenges[e] # 0 => pc'[p] = "fr_verify"
    ]_vars

\* a finish_register has just found nothing pending for an email that
\* has a credential from an earlier, successful one
C1_Witness ==
    /\ response.op = "finish_register"
    /\ response.status = "NoRegistrationInProgress"
    /\ Len(Creds(response.email)) = 1
    /\ consumed # {}

\* C2: when a finish_register or finish_login that found a challenge
\* pending for its email returns, be it with success, with a verification
\* error or because the asserted credential is unknown, no challenge is
\* pending for that email.
C2_ConsumedWhateverTheOutcome ==
    /\ response.op \in {"finish_register", "finish_login"}
    /\ response.status \in {"registered", "ok", "VerificationError", "UnknownCredential"}
    => challenges[response.email] = 0

\* C3: a challenge that a successful finish has verified against is never
\* pending again, for any email, and no finish succeeds against it again.
C3_NoReplay ==
    /\ [](\A e \in Identities : challenges[e] \notin consumed)
    /\ [][\A p \in Coros :
            /\ pc[p] \in {"fr_del", "fl_del"} /\ pc'[p] = "idle"
            /\ response'.status \in {"registered", "ok"}
            => loc[p].chal \notin consumed]_vars

\* a finish has just refused a response signed over a consumed challenge
C3_Witness ==
    /\ response.op \in {"finish_register", "finish_login"}
    /\ response.status = "VerificationError"
    /\ response.body.chal \in consumed

\* C4: with one request at a time, finish_login answers "ok" only to a
\* response signed over the challenge pending for its email; when the
\* verifier is given a response signed over anything else the answer is a
\* verification error; and a finish_login that does not answer "ok" leaves
\* every record and credential, the counters with them, as they were.
C4_OnlyThePendingChallenge ==
    [][\A p \in Coros : pc[p] \in FinishLoginPcs =>
        LET e == loc[p].email
        IN  /\ response'.status = "ok"
                => /\ pc[p] = "fl_del"
                   /\ challenges[e] # 0
                   /\ response'.body.chal = challenges[e]
            /\ pc[p] = "fl_verify" /\ pc'[p] = "fl_update"
                => loc'[p].body.chal = challenges[e]
            /\ pc[p] = "fl_verify" /\ pc'[p] = "idle"
                => response'.status = "VerificationError"
            /\ pc[p] = "fl_update" => pc'[p] = "fl_del"
            /\ pc[p] # "fl_update" => heap' = heap /\ users' = users
    ]_vars

\* a finish_login has just refused a response signed over a challenge that
\* was issued, but is not the one pending for the email
C4_Witness ==
    /\ response.op = "finish_login"
    /\ response.status = "VerificationError"
    /\ response.body.chal # 0
    /\ challenges[response.email] # 0
    /\ response.body.chal # challenges[response.email]

\* C5: an email begin_register was never called for has no user record and
\* no pending challenge, whatever else was called; a finish_register for it
\* answers "no registration in progress" and changes no record.
C5_NoBeginNoRegistration ==
    /\ [](\A e \in Identities \ registerBegun : users[e] = 0 /\ challenges[e] = 0)
    /\ [][\A p \in Coros :
            /\ pc[p] = "fr_get" /\ pc'[p] # "fr_get"
            /\ loc[p].email \notin registerBegun
            => /\ response'.status = "NoRegistrationInProgress"
               /\ users' = users /\ heap' = heap]_vars

\* a finish_register has just been refused for an email begin_register was
\* never called for, after challenges were issued and a begin_login for that
\* email was refused
C5_Witness ==
    /\ response.op = "finish_register"
    /\ response.status = "NoRegistrationInProgress"
    /\ response.email \notin registerBegun
    /\ issued > 0

\* C6: finish_register succeeds only against a challenge that
\* begin_register stored, and finish_login only against one that
\* begin_login stored.
C6_BoundToCeremony ==
    [][\A p \in Coros :
        /\ pc[p] = "fr_del" /\ response'.status = "registered"
            => ceremony[loc[p].email] = "begin_register"
        /\ pc[p] = "fl_del" /\ response'.status = "ok"
            => ceremony[loc[p].email] = "begin_login"]_vars

\* C7: with one request at a time, begin_login either answers that the
\* identity is unknown or has no devices, or returns options whose allowed
\* ids are exactly the ids of the credentials registered for the email.
C7_AllowListExact ==
    response.op = "begin_login" =>
        \/ response.status = "UnknownIdentityOrNoDevices"
        \/ /\ response.status = "options"
           /\ {response.allow[i] : i \in 1..Len(response.allow)}
                  = CredIds(response.email)

\* begin_login has just returned the one id registered for its email
\* while the other email has a credential with another id
C7_Witness ==
    /\ response.op = "begin_login"
    /\ response.status = "options"
    /\ Len(response.allow) = 1
    /\ \E e \in Identities \ {response.email} :
        CredIds(e) # {} /\ response.allow[1] \notin CredIds(e)

\* the body the verifier was given in the step just taken by p
BodyVerified(p) == IF pc'[p] = "idle" THEN response'.body ELSE loc'[p].body

\* C8: with one request at a time, when finish_login gives the verifier a
\* counter that is not above the stored one, unless both are zero, the
\* answer is a verification error and no counter changes.
C8_CounterRegressionFails ==
    [][\A p \in Coros : pc[p] = "fl_verify" =>
        LET stored == heap[loc[p].user][loc[p].idx].counter
            reported == BodyVerified(p).count
        IN  reported <= stored /\ ~ (reported = 0 /\ stored = 0)
            => /\ response'.status = "VerificationError"
               /\ heap' = heap /\ users' = users]_vars

\* a finish_login has just been refused although its response was signed
\* with the credential's key over the pending challenge: its counter was
\* not above the stored one
C8_Witness ==
    /\ response.op = "finish_login"
    /\ response.status = "VerificationError"
    /\ response.body.chal = challenges[response.email]
    /\ \E i \in 1..Len(Creds(response.email)) :
        LET c == Creds(response.email)[i]
        IN  /\ i = FindCredential(Creds(response.email), response.body.id)
            /\ c.public_key = response.body.key
            /\ c.counter > 0
            /\ response.body.count <= c.counter

\* C9 as stated: the counter written by a successful finish_login is the
\* reported one and strictly above the one stored before; nothing else
\* changes.
C9_StrictIncrease ==
    [][\A p \in Coros : pc[p] = "fl_update" =>
        LET h == loc[p].user
            i == loc[p].idx
        IN  /\ heap' = [heap EXCEPT ![h][i].counter = loc[p].body.count]
            /\ users' = users
            /\ heap'[h][i].counter > heap[h][i].counter]_vars

\* C9 amended: the counter written by a successful finish_login is the
\* reported one; it is strictly above the one stored before, or both are
\* zero; nothing else changes; and only a finish_login that wrote the
\* counter answers "ok".
C9_IncreaseOrBothZero ==
    [][\A p \in Coros : pc[p] \in FinishLoginPcs =>
        LET h == loc[p].user
            i == loc[p].idx
        IN  /\ pc[p] = "fl_update"
                => /\ heap' = [heap EXCEPT ![h][i].counter = loc[p].body.count]
                   /\ users' = users
                   /\ \/ heap'[h][i].counter > heap[h][i].counter
                      \/ heap'[h][i].counter = 0 /\ heap[h][i].counter = 0
                   /\ pc'[p] = "fl_del"
            /\ response'.status = "ok"
                => /\ pc[p] = "fl_del"
                   /\ heap[h][i].counter = response'.body.count]_vars

\* a finish_login has just succeeded and the stored counter is the
\* reported one, above zero
C9_Witness ==
    /\ response.op = "finish_login"
    /\ response.status = "ok"
    /\ response.body.count > 0
    /\ \E i \in 1..Len(Creds(response.email)) :
        /\ Creds(response.email)[i].id = response.body.id
        /\ Creds(response.email)[i].counter = response.body.count

\* the credential registered now for the email under the asserted id
LiveCredential(e, id) == FindCredential(Creds(e), id)

\* C10: of the finish_login calls in flight for one email at most one is
\* past its await; the counter a call writes is the one it reported and is
\* never below the one it overwrites (above it, or both zero), so two calls
\* that both succeed leave the higher counter; and a call is never refused
\* by the verifier when its response is signed with the registered key
\* over the pending challenge and reports a counter above the stored one.
C10_ConcurrentLogins ==
    /\ [](Cardinality({p \in Coros : pc[p] \in LoopPcs}) <= 1)
    /\ [][\A p \in Coros :
            LET h == loc[p].user
                i == loc[p].idx
                e == loc[p].email
            IN  /\ pc[p] = "fl_update" /\ pc'[p] = "fl_del"
                    => /\ heap'[h][i].counter = loc[p].body.count
                       /\ \/ heap'[h][i].counter > heap[h][i].counter
                          \/ heap'[h][i].counter = 0 /\ heap[h][i].counter = 0
                /\ pc[p] = "fl_verify" /\ pc'[p] = "idle"
                    => ~ /\ response'.body.chal = challenges[e]
                         /\ LiveCredential(e, response'.body.id) # 0
                         /\ LET c == Creds(e)[LiveCredential(e, response'.body.id)]
                            IN  /\ c.public_key = response'.body.key
                                /\ response'.body.count > c.counter]_vars

\* two finish_login calls are in flight: one waits for the loop while the
\* other is about to write a counter two above the stored one
C10_Witness ==
    \E p, q \in Coros :
        /\ pc[p] = "fl_await"
        /\ pc[q] = "fl_update"
        /\ loc[q].body.count = heap[loc[q].user][loc[q].idx].counter + 2

\* C11: a begin_login goes past its check only for an email that has a
\* record with at least one credential; any other is answered "unknown
\* identity or no devices", and that answer leaves the pending challenges,
\* the records and the credentials as they were and draws no challenge.
C11_NoDevicesNoChallenge ==
    [][/\ \A p \in Workers :
            pc[p] = "idle" /\ pc'[p] = "bl_allow"
                => Creds(loc'[p].email) # <<>>
       /\ response'.op = "begin_login"
            /\ response'.status = "UnknownIdentityOrNoDevices"
            => /\ Creds(response'.email) = <<>>
               /\ challenges' = challenges
               /\ issued' = issued
               /\ users' = users
               /\ heap' = heap
               /\ pc' = pc]_vars

\* a begin_login has just been refused for an email whose registration
\* was begun and not finished: the record has no credential and the
\* challenge of the registration is still pending
C11_Witness ==
    /\ response.op = "begin_login"
    /\ response.status = "UnknownIdentityOrNoDevices"
    /\ users[response.email] # 0
    /\ Creds(response.email) = <<>>
    /\ challenges[response.email] # 0

\* C12: with one request at a time, a finish_login that asserts an id
\* which none of the credentials of its email has is answered "unknown
\* credential" and changes no record and no credential, whoever else has a
\* credential with that id and whatever its signature; only an id of the
\* email's own list reaches the verifier.
C12_ForeignCredentialRefused ==
    [][\A p \in Coros : pc[p] = "fl_find" =>
        LET asserted == BodyVerified(p).id
        IN  /\ asserted \notin CredIds(loc[p].email)
                => /\ response'.op = "finish_login"
                   /\ response'.status = "UnknownCredential"
                   /\ heap' = heap
                   /\ users' = users
            /\ pc'[p] = "fl_verify" => asserted \in CredIds(loc[p].email)]_vars

\* a finish_login has just been answered "unknown credential": the
\* asserted id is not registered for its email, it is registered for the
\* other one, and the response was signed with that credential's key over
\* the challenge pending for the email of the request
C12_Witness ==
    /\ response.op = "finish_login"
    /\ response.status = "UnknownCredential"
    /\ response.body.id \notin CredIds(response.email)
    /\ challenges[response.email] # 0
    /\ response.body.chal = challenges[response.email]
    /\ \E e \in Identities \ {response.email} :
        \E i \in 1..Len(Creds(e)) :
            /\ Creds(e)[i].id = response.body.id
            /\ Creds(e)[i].public_key = response.body.key
            /\ response.body.count > Creds(e)[i].counter

\* C13: a begin_login that returns options leaves in place the challenge
\* that begin_register stored for the same email and that is still
\* pending, and a begin_register leaves in place the pending challenge
\* that begin_login stored, so that the finish of the earlier ceremony is
\* still judged against its own challenge.
C13_BeginLeavesOtherCeremony ==
    [][\A e \in Identities :
        /\ response'.op = "begin_login" /\ response'.status = "options"
            /\ response'.email = e /\ ceremony[e] = "begin_register"
            => challenges'[e] = challenges[e]
        /\ response'.op = "begin_register" /\ response'.status = "options"
            /\ response'.email = e /\ ceremony[e] = "begin_login"
            => challenges'[e] = challenges[e]]_vars

\* C14: with one request at a time, no step of a finish_register up to
\* and including its verification changes a record, a handle, a credential
\* or a counter; a finish_register answers with a verification error only
\* from its verification step; and it comes to store a credential only
\* with a response attested over the challenge it read.
C14_FailedRegistrationStoresNothing ==
    /\ [][\A p \in Coros :
            /\ pc[p] \in {"fr_await", "fr_get", "fr_verify"} /\ pc'[p] # pc[p]
                => heap' = heap /\ users' = users
            /\ pc[p] \in FinishRegisterPcs /\ pc'[p] = "idle"
                /\ response'.status = "VerificationError"
                => pc[p] = "fr_verify" /\ heap' = heap /\ users' = users]_vars
    /\ [](\A p \in Coros : pc[p] \in {"fr_store", "fr_del"}
            => loc[p].body.chal = loc[p].chal /\ loc[p].chal # 0)

\* a finish_register has just failed verification with a response attested
\* over a challenge that was issued but is not the pending one; the record
\* of its email has no credential
C14_Witness ==
    /\ response.op = "finish_register"
    /\ response.status = "VerificationError"
    /\ response.body.chal # 0
    /\ challenges[response.email] # 0
    /\ users[response.email] # 0
    /\ Creds(response.email) = <<>>

\* C15: once a record is stored for an email its handle never changes,
\* and every begin_register for the email returns options that carry the
\* handle of the record stored for it.
C15_HandleImmutable ==
    /\ [][\A e \in Identities : users[e] # 0 => users'[e] = users[e]]_vars
    /\ [](response.op = "begin_register" /\ response.status = "options"
            => response.user = users[response.email])

\* C16: the credential list of an email only grows by appending: every
\* step leaves each credential registered for an email in that email's
\* list, at its place, with its id and its public key.
C16_CredentialsOnlyAppended ==
    [][\A e \in Identities :
        /\ Len(Creds(e)') >= Len(Creds(e))
        /\ \A i \in 1..Len(Creds(e)) :
            /\ Creds(e)'[i].id = Creds(e)[i].id
            /\ Creds(e)'[i].public_key = Creds(e)[i].public_key]_vars

\* C17: when a finish_register or finish_login removes the pending
\* challenge of its email, that challenge is the one it read and verified
\* against.
C17_RemovesWhatItVerified ==
    [][\A p \in Coros :
        LET e == loc[p].email
        IN  /\ pc[p] \in {"fr_del", "fl_del"}
            /\ pc'[p] = "idle"
            /\ challenges[e] # 0
            /\ challenges'[e] = 0
            => challenges[e] = loc[p].chal]_vars

\* C18: the credentials registered for one email have pairwise distinct
\* ids.
C18_DistinctIds ==
    \A e \in Identities :
        \A i, j \in 1..Len(Creds(e)) :
            i # j => Creds(e)[i].id # Creds(e)[j].id

\* C19: no step lowers the counter of a credential of any record; a
\* counter changes only in the update step of a finish_login that
\* asserted the id of that credential and whose response the verifier
\* accepted, and that finish_login goes on to answer "ok".
C19_CounterMonotonic ==
    [][/\ \A h \in 1..Len(heap) : \A i \in 1..Len(heap[h]) :
            /\ heap'[h][i].counter >= heap[h][i].counter
            /\ heap'[h][i].counter # heap[h][i].counter
                => \E p \in Coros :
                    /\ pc[p] = "fl_update" /\ pc'[p] = "fl_del"
                    /\ loc[p].user = h /\ loc[p].idx = i
                    /\ loc[p].body.id = heap[h][i].id
                    /\ loc[p].body.chal = loc[p].chal
                    /\ heap'[h][i].counter = loc[p].body.count
       /\ \A p \in Coros : pc[p] = "fl_del" /\ pc'[p] = "idle"
            => response'.status = "ok"]_vars

\* a finish_login has just been refused for reporting a counter below the
\* stored one, which an earlier finish_login had raised above every
\* counter a credential starts with
C19_Witness ==
    /\ response.op = "finish_login"
    /\ response.status = "VerificationError"
    /\ \E i \in 1..Len(Creds(response.email)) :
        LET c == Creds(response.email)[i]
        IN  /\ c.id = response.body.id
            /\ c.counter \notin InitialCounters
            /\ response.body.count < c.counter

\* C20: every email that has a pending challenge has a user record, and a
\* finish_register whose response was verified always finds the record to
\* append to: its store step goes on to the removal of the challenge.
C20_ChallengeImpliesRecord ==
    /\ [](\A e \in Identities : challenges[e] # 0 => users[e] # 0)
    /\ [][\A p \in Coros : pc[p] = "fr_store" /\ pc'[p] # "fr_store"
            => /\ pc'[p] = "fr_del"
               /\ Len(Creds(loc[p].email)') = Len(Creds(loc[p].email)) + 1]_vars

\* a finish_register has appended a credential to the record of an email
\* whose pending challenge was stored by begin_login
C20_Witness ==
    \E p \in Coros :
        /\ pc[p] = "fr_del"
        /\ ceremony[loc[p].email] = "begin_login"
        /\ Len(Creds(loc[p].email)) = 2

====
